---- MODULE Spec2Model ----
(***************************************************************************)
(* Model of plum.py: the class Words (a validating wrapper) over the       *)
(* recursive node class _Trie.  Strings are sequences of one-character     *)
(* strings; Python's index i is index i+1 here.                            *)
(***************************************************************************)
EXTENDS Integers, Sequences, FiniteSets, TLC

\* ------------------------------------------------------------------ bounds
\* Longest string a caller passes to add_word, contains or search.
MaxLen == 2
\* Largest number of characters, each word counted with its END sentinel,
\* that the add_word calls of one run store: it caps the size of the trie.
MaxChars == 6

\* ---------------------------------------------------------------- alphabet
FIRST == "^"
LAST == "$"
DOT == "."
NL == "\n"
\* Two representatives of the lowercase letters a-z.
Letters == {"a", "b"}
\* The characters callers build their strings from: letters, the wildcard,
\* a newline, and LAST, which stands for every character that neither
\* pattern accepts at any position (uppercase, digits, the sentinels).
Chars == Letters \cup {DOT, NL, LAST}

Strings(n) == UNION {[1..k -> Chars] : k \in 0..n}
Inputs == Strings(MaxLen)

Max(a, b) == IF a >= b THEN a ELSE b

\* ----------------------------------------------------------- class _Trie
\* A _Trie object is identified by the sequence of keys leading to it from
\* the root.  Each object holds _letter and _entry; _entry is a Python dict,
\* kept as the sequence of its keys in insertion order, the value under key
\* c of the object at path n being the object at path Append(n, c).
NewTrie(letter) == [letter |-> letter, entry |-> << >>]

Root == << >>

\* Variant: the membership test "in self._entry" never finds a key.
KeysNeverFound(entry) == {}

Keys(entry) == {entry[i] : i \in 1..Len(entry)}

Child(n, c) == Append(n, c)

RECURSIVE TrieAddWord(_, _, _)
\* Variant: the child is stored without the test "not in self._entry", so
\* an existing child is replaced by an empty one.
TrieAddWordOverwrite(t, n, word) ==
    IF Len(word) = 0 THEN [t |-> t, err |-> "IndexError", depth |-> 1]
    ELSE IF word[1] # t[n].letter THEN [t |-> t, err |-> "AssertionError", depth |-> 1]
    ELSE IF Len(word) = 1 THEN [t |-> t, err |-> "none", depth |-> 1]
    ELSE LET left_letter == word[2]
             right_word == Tail(word)
             t1 == (Child(n, left_letter) :> NewTrie(left_letter))
                   @@ [t EXCEPT ![n].entry = IF left_letter \in Keys(@) THEN @
                                              ELSE Append(@, left_letter)]
             r == TrieAddWord(t1, Child(n, left_letter), right_word)
         IN [t |-> r.t, err |-> r.err, depth |-> r.depth + 1]

\* Variant: the child is built with the letter of the current node,
\* _Trie(word[0]), instead of _Trie(left_letter).
TrieAddWordWrongLetter(t, n, word) ==
    IF Len(word) = 0 THEN [t |-> t, err |-> "IndexError", depth |-> 1]
    ELSE IF word[1] # t[n].letter THEN [t |-> t, err |-> "AssertionError", depth |-> 1]
    ELSE IF Len(word) = 1 THEN [t |-> t, err |-> "none", depth |-> 1]
    ELSE LET left_letter == word[2]
             right_word == Tail(word)
             t1 == IF left_letter \notin Keys(t[n].entry)
                   THEN (Child(n, left_letter) :> NewTrie(word[1]))
                        @@ [t EXCEPT ![n].entry = Append(@, left_letter)]
                   ELSE t
             r == TrieAddWord(t1, Child(n, left_letter), right_word)
         IN [t |-> r.t, err |-> r.err, depth |-> r.depth + 1]

TrieAddWord(t, n, word) ==
    IF Len(word) = 0 THEN [t |-> t, err |-> "IndexError", depth |-> 1]
    ELSE IF word[1] # t[n].letter THEN [t |-> t, err |-> "AssertionError", depth |-> 1]
    ELSE IF Len(word) = 1 THEN [t |-> t, err |-> "none", depth |-> 1]
    ELSE LET left_letter == word[2]
             right_word == Tail(word)
             t1 == IF left_letter \notin Keys(t[n].entry)
                   THEN (Child(n, left_letter) :> NewTrie(left_letter))
                        @@ [t EXCEPT ![n].entry = Append(@, left_letter)]
                   ELSE t
             r == TrieAddWord(t1, Child(n, left_letter), right_word)
         IN [t |-> r.t, err |-> r.err, depth |-> r.depth + 1]

RECURSIVE TrieContains(_, _, _)
RECURSIVE TrieContainsAny(_, _, _, _)
\* any(self._entry[c].contains(right_word) for c in self._entry): the
\* children are tried in the order of the dict and the scan stops at the
\* first one that returns True (or raises).
\* Variant: only the first child of the dict is tried.
TrieContainsFirstOnly(t, n, i, right_word) ==
    IF i > Len(t[n].entry) THEN [found |-> FALSE, err |-> "none", depth |-> 0]
    ELSE TrieContains(t, Child(n, t[n].entry[i]), right_word)

TrieContainsAny(t, n, i, right_word) ==
    IF i > Len(t[n].entry) THEN [found |-> FALSE, err |-> "none", depth |-> 0]
    ELSE LET r == TrieContains(t, Child(n, t[n].entry[i]), right_word)
         IN IF r.err # "none" \/ r.found THEN r
            ELSE LET s == TrieContainsAny(t, n, i + 1, right_word)
                 IN [found |-> s.found, err |-> s.err, depth |-> Max(r.depth, s.depth)]

\* Variant: a query that ends at this node is accepted without looking for
\* the END child, so a prefix of a stored word counts as a word.
TrieContainsPrefix(t, n, word) ==
    IF Len(word) = 1 THEN [found |-> word[1] = t[n].letter, err |-> "none", depth |-> 1]
    ELSE IF Len(word) = 0 THEN [found |-> FALSE, err |-> "IndexError", depth |-> 1]
    ELSE LET left_letter == word[2]
             right_word == Tail(word)
         IN IF left_letter = LAST
            THEN [found |-> TRUE, err |-> "none", depth |-> 1]
            ELSE IF left_letter # DOT
            THEN IF left_letter \notin Keys(t[n].entry)
                 THEN [found |-> FALSE, err |-> "none", depth |-> 1]
                 ELSE LET r == TrieContains(t, Child(n, left_letter), right_word)
                      IN [r EXCEPT !.depth = @ + 1]
            ELSE LET r == TrieContainsAny(t, n, 1, right_word)
                 IN [r EXCEPT !.depth = @ + 1]

TrieContains(t, n, word) ==
    IF Len(word) = 1 THEN [found |-> word[1] = t[n].letter, err |-> "none", depth |-> 1]
    ELSE IF Len(word) = 0 THEN [found |-> FALSE, err |-> "IndexError", depth |-> 1]
    ELSE LET left_letter == word[2]
             right_word == Tail(word)
         IN IF left_letter # DOT
            THEN IF left_letter \notin Keys(t[n].entry)
                 THEN [found |-> FALSE, err |-> "none", depth |-> 1]
                 ELSE LET r == TrieContains(t, Child(n, left_letter), right_word)
                      IN [r EXCEPT !.depth = @ + 1]
            ELSE LET r == TrieContainsAny(t, n, 1, right_word)
                 IN [r EXCEPT !.depth = @ + 1]

RECURSIVE GetAllSuffixes(_, _)
RECURSIVE SuffixesFrom(_, _, _)
\* Variant: the END child is visited like any other child before its empty
\* suffix is appended.
SuffixesFromVisitLast(t, n, i) ==
    IF i > Len(t[n].entry) THEN [list |-> << >>, depth |-> 0]
    ELSE LET c == t[n].entry[i]
             rest == SuffixesFrom(t, n, i + 1)
             sub == GetAllSuffixes(t, Child(n, c))
         IN IF c = LAST
            THEN [list |-> << << >> >> \o rest.list, depth |-> Max(sub.depth, rest.depth)]
            ELSE [list |-> [k \in 1..Len(sub.list) |-> <<c>> \o sub.list[k]] \o rest.list,
                  depth |-> Max(sub.depth, rest.depth)]

\* The loop of _get_all_suffixes from the i-th key of the dict on.
SuffixesFrom(t, n, i) ==
    IF i > Len(t[n].entry) THEN [list |-> << >>, depth |-> 0]
    ELSE LET c == t[n].entry[i]
             rest == SuffixesFrom(t, n, i + 1)
         IN IF c = LAST
            THEN [list |-> << << >> >> \o rest.list, depth |-> rest.depth]
            ELSE LET sub == GetAllSuffixes(t, Child(n, c))
                 IN [list |-> [k \in 1..Len(sub.list) |-> <<c>> \o sub.list[k]] \o rest.list,
                     depth |-> Max(sub.depth, rest.depth)]

GetAllSuffixes(t, n) ==
    LET r == SuffixesFrom(t, n, 1) IN [list |-> r.list, depth |-> r.depth + 1]

RECURSIVE TrieSearch(_, _, _, _)
\* Variant: the suffixes are returned without the prefix in front of them.
TrieSearchNoPrefix(t, n, word, prefix) ==
    IF Len(word) < 1 THEN [list |-> << >>, err |-> "AssertionError", depth |-> 1]
    ELSE IF Len(word) < 2 THEN [list |-> << >>, err |-> "IndexError", depth |-> 1]
    ELSE LET left_letter == word[2]
             right_word == Tail(word)
         IN IF left_letter # LAST
            THEN IF left_letter \notin Keys(t[n].entry)
                 THEN [list |-> << >>, err |-> "none", depth |-> 1]
                 ELSE LET r == TrieSearch(t, Child(n, left_letter), right_word, prefix)
                      IN [r EXCEPT !.depth = @ + 1]
            ELSE LET s == GetAllSuffixes(t, n)
                 IN [list |-> s.list, err |-> "none", depth |-> s.depth + 1]

TrieSearch(t, n, word, prefix) ==
    IF Len(word) < 1 THEN [list |-> << >>, err |-> "AssertionError", depth |-> 1]
    ELSE IF Len(word) < 2 THEN [list |-> << >>, err |-> "IndexError", depth |-> 1]
    ELSE LET left_letter == word[2]
             right_word == Tail(word)
         IN IF left_letter # LAST
            THEN IF left_letter \notin Keys(t[n].entry)
                 THEN [list |-> << >>, err |-> "none", depth |-> 1]
                 ELSE LET r == TrieSearch(t, Child(n, left_letter), right_word, prefix)
                      IN [r EXCEPT !.depth = @ + 1]
            ELSE LET s == GetAllSuffixes(t, n)
                 IN [list |-> [k \in 1..Len(s.list) |-> prefix \o s.list[k]],
                     err |-> "none", depth |-> s.depth + 1]

\* ----------------------------------------------------------- class Words
\* re.match(r"^[a-z]*$", word): '$' matches at the end of the string and
\* also just before a newline that ends the string.
LETTERS_PATTERN(word) ==
    \A i \in 1..Len(word) : word[i] \in Letters \/ (word[i] = NL /\ i = Len(word))

\* re.match(r"^[a-z\.]*$", word)
LETTERS_AND_DOT_PATTERN(word) ==
    \A i \in 1..Len(word) :
        word[i] \in Letters \cup {DOT} \/ (word[i] = NL /\ i = Len(word))

\* Variant: the END sentinel is not appended.
pad_word_no_last(word) == <<FIRST>> \o word

pad_word(word) == <<FIRST>> \o word \o <<LAST>>

VARIABLES
    trie,   \* the _Trie objects reachable from Words._trie
    hist,   \* history: the words of the add_word calls that returned normally
    res     \* the call that has just returned, or NoCall

vars == <<trie, hist, res>>

Added == {hist[i] : i \in 1..Len(hist)}

RECURSIVE TotalChars(_)
TotalChars(h) == IF h = << >> THEN 0 ELSE Len(Head(h)) + 1 + TotalChars(Tail(h))

NoCall == [op |-> "none", arg |-> << >>, err |-> "none", found |-> FALSE,
           list |-> << >>, depth |-> 0]

Init ==
    /\ trie = (Root :> NewTrie(FIRST))
    /\ hist = << >>
    /\ res = NoCall

add_word(word) ==
    /\ res = NoCall
    /\ IF ~LETTERS_PATTERN(word)
       THEN /\ res' = [NoCall EXCEPT !.op = "add_word", !.arg = word, !.err = "WordsError"]
            /\ UNCHANGED <<trie, hist>>
       ELSE LET r == TrieAddWord(trie, Root, pad_word(word))
            IN /\ TotalChars(hist) + Len(word) + 1 <= MaxChars
               /\ trie' = r.t
               /\ hist' = IF r.err = "none" THEN Append(hist, word) ELSE hist
               /\ res' = [NoCall EXCEPT !.op = "add_word", !.arg = word,
                                        !.err = r.err, !.depth = r.depth]

contains(word) ==
    /\ res = NoCall
    /\ IF ~LETTERS_AND_DOT_PATTERN(word)
       THEN res' = [NoCall EXCEPT !.op = "contains", !.arg = word, !.err = "WordsError"]
       ELSE LET r == TrieContains(trie, Root, pad_word(word))
            IN res' = [NoCall EXCEPT !.op = "contains", !.arg = word, !.err = r.err,
                                     !.found = r.found, !.depth = r.depth]
    /\ UNCHANGED <<trie, hist>>

search(word) ==
    /\ res = NoCall
    /\ IF ~LETTERS_PATTERN(word)
       THEN res' = [NoCall EXCEPT !.op = "search", !.arg = word, !.err = "WordsError"]
       ELSE LET r == TrieSearch(trie, Root, pad_word(word), word)
            IN res' = [NoCall EXCEPT !.op = "search", !.arg = word, !.err = r.err,
                                     !.list = r.list, !.depth = r.depth]
    /\ UNCHANGED <<trie, hist>>

\* The caller consumes the result (the examples print it) and goes on.
Discard ==
    /\ res # NoCall
    /\ res' = NoCall
    /\ UNCHANGED <<trie, hist>>

Next ==
    \/ \E word \in Inputs : add_word(word)
    \/ \E word \in Inputs : contains(word)
    \/ \E word \in Inputs : search(word)
    \/ Discard

Spec == Init /\ [][Next]_vars

\* ------------------------------------------------- reference definitions
\* The reading of the claims: what a word, a prefix and a match are.
IsPrefix(p, w) == Len(p) <= Len(w) /\ \A i \in 1..Len(p) : p[i] = w[i]

Matches(q, w) == Len(q) = Len(w) /\ \A i \in 1..Len(q) : q[i] = DOT \/ q[i] = w[i]

HasDot(q) == \E i \in 1..Len(q) : q[i] = DOT

HasCharOutside(w, S) == \E i \in 1..Len(w) : w[i] \notin S

Elements(list) == {list[i] : i \in 1..Len(list)}

RECURSIVE Longest(_)
Longest(h) == IF h = << >> THEN 0 ELSE Max(Len(Head(h)), Longest(Tail(h)))

\* The input passed the validation of the operation that was called.
Validated == IF res.op = "contains" THEN LETTERS_AND_DOT_PATTERN(res.arg)
             ELSE LETTERS_PATTERN(res.arg)

Returned(op) == res.op = op /\ res.err = "none"

\* The trie that a fresh dictionary holds after add_word of each word of h.
RECURSIVE Build(_)
Build(h) ==
    IF h = << >> THEN (Root :> NewTrie(FIRST))
    ELSE TrieAddWord(Build(SubSeq(h, 1, Len(h) - 1)), Root, pad_word(h[Len(h)])).t

SwapLastTwo(h) ==
    IF Len(h) < 2 THEN h
    ELSE SubSeq(h, 1, Len(h) - 2) \o <<h[Len(h)], h[Len(h) - 1]>>

\* The dictionary filled like this one, its last two insertions exchanged.
OtherOrder == Build(SwapLastTwo(hist))

SameMapping(t1, t2) ==
    /\ DOMAIN t1 = DOMAIN t2
    /\ \A n \in DOMAIN t1 : /\ t1[n].letter = t2[n].letter
                            /\ Keys(t1[n].entry) = Keys(t2[n].entry)

\* ------------------------------------------------------------------ C1
\* C1: a word whose add_word call has returned is contained, whatever calls
\* (valid or not, with any words) came after its insertion.
C1_AddedIsContained ==
    (res.op = "contains" /\ res.arg \in Added) => (res.err = "none" /\ res.found)

C1_Witness ==
    /\ Len(hist) >= 2
    /\ hist[1] # hist[2]
    /\ Returned("contains")
    /\ res.arg = hist[1]
    /\ res.found

\* ------------------------------------------------------------------ C2
\* C2: search(p) with a validated p returns the added words that start with
\* p, each exactly once and free of sentinels.
C2_SearchExact ==
    (res.op = "search" /\ Validated) =>
        /\ res.err = "none"
        /\ Elements(res.list) = {w \in Added : IsPrefix(res.arg, w)}
        /\ Len(res.list) = Cardinality(Elements(res.list))
        /\ \A i \in 1..Len(res.list) : ~HasCharOutside(res.list[i], Letters \cup {NL})

C2_Witness ==
    /\ Returned("search")
    /\ res.arg = <<"a">>
    /\ res.arg \in Added
    /\ Len(res.list) = 2
    /\ \E w \in Added : ~IsPrefix(res.arg, w)

\* ------------------------------------------------------------------ C3
\* C3: a pattern made from an added word by putting '.' at one, several or
\* all of its positions is contained.
C3_WildcardContained ==
    (res.op = "contains" /\ HasDot(res.arg) /\ \E w \in Added : Matches(res.arg, w))
        => (res.err = "none" /\ res.found)

C3_Witness ==
    /\ Returned("contains")
    /\ res.arg = <<DOT, "b">>
    /\ hist = << <<"a", "a">>, <<"b", "b">> >>
    /\ res.found

\* ------------------------------------------------------------------ C4
\* C4: a string with a character outside a-z makes add_word and search fail
\* with WordsError, and one with a character outside a-z and '.' makes
\* contains fail with WordsError.
C4_InvalidRejected ==
    /\ (res.op \in {"add_word", "search"} /\ HasCharOutside(res.arg, Letters))
            => res.err = "WordsError"
    /\ (res.op = "contains" /\ HasCharOutside(res.arg, Letters \cup {DOT}))
            => res.err = "WordsError"

\* ------------------------------------------------------------------ C5
\* C5: contains(q) is true only if an added word has the length of q and
\* agrees with q wherever q has no '.'.
C5_ContainsOnlyMatches ==
    (Returned("contains") /\ res.found) => \E w \in Added : Matches(res.arg, w)

C5_Witness ==
    /\ Returned("contains")
    /\ res.arg = <<"a", DOT>>
    /\ <<"a">> \in Added
    /\ ~res.found

\* ------------------------------------------------------------------ C6
\* C6: add_word of a word that is already stored leaves the trie unchanged.
C6_AddIdempotent ==
    [][(res'.op = "add_word" /\ res'.err = "none" /\ res'.arg \in Added)
            => trie' = trie]_vars

C6_Witness ==
    /\ Returned("add_word")
    /\ Len(hist) = 3
    /\ hist[3] = hist[1]
    /\ hist[2] # hist[1]

C8_DepthByInput ==
    res.op # "none" => res.depth <= Len(res.arg) + 2

\* C8 amended: add_word and contains recurse at most len(word) + 2 deep;
\* search recurses at most max(len(word), longest stored word) + 2 deep.
C8_DepthBounded ==
    /\ res.op \in {"add_word", "contains"} => res.depth <= Len(res.arg) + 2
    /\ res.op = "search" => res.depth <= Max(Len(res.arg), Longest(hist)) + 2

C8_Witness ==
    /\ Returned("search")
    /\ res.depth > Len(res.arg) + 2
    /\ res.depth = Longest(hist) + 2

\* ------------------------------------------------------------------ C9
RepOK ==
    /\ Root \in DOMAIN trie
    /\ trie[Root].letter = FIRST
    /\ \A n \in DOMAIN trie :
        /\ n # Root => /\ SubSeq(n, 1, Len(n) - 1) \in DOMAIN trie
                       /\ n[Len(n)] \in Keys(trie[SubSeq(n, 1, Len(n) - 1)].entry)
        /\ Len(trie[n].entry) = Cardinality(Keys(trie[n].entry))
        /\ \A c \in Keys(trie[n].entry) :
            /\ Child(n, c) \in DOMAIN trie
            /\ trie[Child(n, c)].letter = c
        /\ trie[n].letter = LAST => trie[n].entry = << >>
        /\ trie[n].entry = << >> =>
                (trie[n].letter = LAST \/ (n = Root /\ hist = << >>))
    /\ {SubSeq(n, 1, Len(n) - 1) : n \in {m \in DOMAIN trie : trie[m].letter = LAST}}
            = Added

NoNodeRemoved ==
    \A n \in DOMAIN trie :
        /\ n \in DOMAIN trie'
        /\ trie'[n].letter = trie[n].letter
        /\ \A i \in 1..Len(trie[n].entry) :
            i <= Len(trie'[n].entry) /\ trie'[n].entry[i] = trie[n].entry[i]

\* C9: the representation invariant of the trie holds in every state, the
\* root-to-END paths spell the added words, and no step removes a node.
C9_Representation == []RepOK /\ [][NoNodeRemoved]_vars

C9_Witness ==
    /\ Len(hist) = 3
    /\ Cardinality(Added) = 3
    /\ \E n \in DOMAIN trie : Len(trie[n].entry) = 3

\* ----------------------------------------------------------------- C10
\* C10 as stated: exchanging the last two insertions gives the same trie,
\* the same contains results and the same search lists in the same order.
C10_SameOrder ==
    /\ SameMapping(trie, OtherOrder)
    /\ Returned("contains") =>
            res.found = TrieContains(OtherOrder, Root, pad_word(res.arg)).found
    /\ Returned("search") =>
            res.list = TrieSearch(OtherOrder, Root, pad_word(res.arg), res.arg).list

\* C10 amended: exchanging the last two insertions gives the same trie, the
\* same contains results and search lists with the same elements, the
\* order of a list following the order of insertion.
C10_SameElements ==
    /\ SameMapping(trie, OtherOrder)
    /\ Returned("contains") =>
            res.found = TrieContains(OtherOrder, Root, pad_word(res.arg)).found
    /\ Returned("search") =>
            LET other == TrieSearch(OtherOrder, Root, pad_word(res.arg), res.arg).list
            IN Elements(res.list) = Elements(other) /\ Len(res.list) = Len(other)

C10_Witness ==
    /\ Returned("search")
    /\ Len(hist) = 3
    /\ hist[2] # hist[3]
    /\ Len(res.list) >= 2
    /\ res.list # TrieSearch(OtherOrder, Root, pad_word(res.arg), res.arg).list

====
